---- MODULE Spec2Model ----
(***************************************************************************)
(* Model of RingBuffer (src/src/decoding/ringbuffer.rs): a growable ring   *)
(* buffer of bytes over one heap allocation, with the cursors head and     *)
(* tail, literal append (extend), self-referential append                  *)
(* (extend_from_within), drain, clear and reserve.                         *)
(*                                                                         *)
(* usize is modelled with UsizeBits bits, so that the wrapping arithmetic  *)
(* of a release build and the overflow panics of a debug build are both    *)
(* part of the model.  The build profile (debug) is fixed at construction. *)
(* An operation yields a SET of outcomes: one outcome where the code is    *)
(* deterministic, several where it has undefined behaviour (a read or      *)
(* write outside the allocation, a read of uninitialized bytes, a          *)
(* zero-size allocation): the program crashes, or the call returns with    *)
(* arbitrary bytes in place of those it had no right to read.  A session   *)
(* is not followed past undefined behaviour.  The allocator is assumed to  *)
(* succeed.                                                                *)
(*                                                                         *)
(* A run is a session: a finite sequence of calls on one RingBuffer.  Any  *)
(* call may be the session's final one; a session also ends when a call    *)
(* panics or has undefined behaviour.  The variable last holds the call   *)
(* that ended the session, with its arguments and the cursors as they were *)
(* before the call.                                                        *)
(***************************************************************************)
EXTENDS Integers, Sequences, FiniteSets, TLC

\* ------------------------------------------------------------- bounds

\* Width of usize in bits.
UsizeBits == 5

\* Largest capacity a successful growth may produce.
MaxCap == 8

\* Most calls in a session.
MaxCalls == 5

\* Longest byte string handed to extend.
MaxData == 3

\* Largest of the small sizes and offsets a caller passes.
MaxArg == 5

\* How far past len() the out-of-contract arguments of extend_from_within go.
MaxExcess == 1

\* Most calls made on two buffers that are compared call by call.
MaxFollowUps == 2

\* The values of a byte (u8, cut down to two values).
Bytes == {0, 1}

\* A byte of an allocation that was never written.
Uninit == -1

\* ------------------------------------------------------- machine words

Min(a, b) == IF a <= b THEN a ELSE b

Max(a, b) == IF a >= b THEN a ELSE b

RECURSIVE Pow2(_)
Pow2(n) == IF n = 0 THEN 1 ELSE 2 * Pow2(n - 1)

\* usize::MAX
UsizeMax == Pow2(UsizeBits) - 1

\* isize::MAX
IsizeMax == Pow2(UsizeBits - 1) - 1

\* The value a release build computes for an unsigned result x.
wrapping(x) == x % (UsizeMax + 1)

\* A debug build panics on this result ("attempt to ... with overflow").
overflows(x) == x > UsizeMax \/ x < 0

RECURSIVE PowerOfTwoFrom(_, _)
PowerOfTwoFrom(p, n) == IF p >= n THEN p ELSE PowerOfTwoFrom(2 * p, n)

\* usize::next_power_of_two: the smallest power of two >= n (1 for n = 0);
\* when that does not fit, a debug build panics and a release build gives 0.
next_power_of_two(n) ==
    LET p == PowerOfTwoFrom(1, n) IN IF p > UsizeMax THEN 0 ELSE p

next_power_of_two_overflows(n) == PowerOfTwoFrom(1, n) > UsizeMax

\* ------------------------------------------------------------ the state

VARIABLES
    buf,     \* the allocation: [0 .. cap-1 -> Bytes \cup {Uninit}]
    cap,     \* its size
    head,    \* index of the first live byte
    tail,    \* index one past the last live byte
    debug,   \* TRUE: debug assertions and overflow checks are compiled in
    status,  \* "running" | "done" | "panic" | "crash" | "undefined"
    model,   \* reference queue: the bytes appended and not yet drained
    calls,   \* the number of calls made in the session
    last     \* the call that ended the session, and the cursors before it

vars == <<buf, cap, head, tail, debug, status, model, calls, last>>

\* The RingBuffer the state holds.
RingBuffer == [buf |-> buf, cap |-> cap, head |-> head, tail |-> tail]

\* RingBuffer::new()
new == [buf |-> << >>, cap |-> 0, head |-> 0, tail |-> 0]

\* An operation's outcome: how it ended and the buffer it left.
Ok(rb) == [st |-> "ok", rb |-> rb]

Panic(rb) == [st |-> "panic", rb |-> rb]

Crash(rb) == [st |-> "crash", rb |-> rb]

\* The call had undefined behaviour and went on, leaving rb.
Undefined(rb) == [st |-> "undefined", rb |-> rb]

\* An outcome reached through undefined behaviour stays so marked.
Tainted(o) == IF o.st = "ok" THEN Undefined(o.rb) ELSE o

\* ------------------------------------------------------ region calculator

data_slice_lengths(self) ==
    IF self.tail >= self.head
    THEN <<self.tail - self.head, 0>>
    ELSE <<self.cap - self.head, self.tail>>

len(self) == data_slice_lengths(self)[1] + data_slice_lengths(self)[2]

is_empty(self) == self.head = self.tail

\* free_slice_lengths without the span before head (line 155).
free_slice_lengths_after_tail(self) ==
    IF self.tail < self.head
    THEN <<0, self.head - self.tail>>
    ELSE <<0, self.cap - self.tail>>

\* <<len_to_head, len_after_tail>>
free_slice_lengths(self) ==
    IF self.tail < self.head
    THEN <<0, self.head - self.tail>>
    ELSE <<self.head, self.cap - self.tail>>

\* <<<<offset, length>>, <<offset, length>>>>: offsets into buf stand for pointers.
data_slice_parts(self) ==
    << <<self.head, data_slice_lengths(self)[1]>>,
       <<0, data_slice_lengths(self)[2]>> >>

free_slice_parts(self) ==
    << <<self.tail, free_slice_lengths(self)[2]>>,
       <<0, free_slice_lengths(self)[1]>> >>

\* The byte at offset p of the allocation; Uninit outside it.
ByteAt(self, p) == IF p >= 0 /\ p < self.cap THEN self.buf[p] ELSE Uninit

\* slice_from_raw_parts(buf.add(p), n) as a sequence.
SliceAt(self, p, n) == [i \in 1..n |-> ByteAt(self, p + i - 1)]

as_slices(self) ==
    << SliceAt(self, data_slice_parts(self)[1][1], data_slice_parts(self)[1][2]),
       SliceAt(self, data_slice_parts(self)[2][1], data_slice_parts(self)[2][2]) >>

\* The logical content: as_slices().0 followed by as_slices().1.
Content(self) == as_slices(self)[1] \o as_slices(self)[2]

\* -------------------------------------------------- backing store manager

\* Line 55 without the slack byte.
new_cap_without_slack(self, amount) ==
    Max(wrapping(self.cap * 2),
        next_power_of_two(wrapping(self.cap + amount)))

\* Line 55, as a release build computes it.
new_cap(self, amount) ==
    Max(wrapping(self.cap * 2),
        next_power_of_two(wrapping(self.cap + amount + 1)))

\* Line 55 in a debug build: some step of the computation overflows.
new_cap_overflows(self, amount) ==
    \/ overflows(self.cap * 2)
    \/ overflows(self.cap + amount + 1)
    \/ next_power_of_two_overflows(self.cap + amount + 1)

\* Lines 63-80 without the copy of the second live span (line 73).
realloc_first_span(self, nc) ==
    [buf  |-> [i \in 0..(nc - 1) |->
                 IF i < data_slice_lengths(self)[1]
                 THEN ByteAt(self, self.head + i) ELSE Uninit],
     cap  |-> nc,
     head |-> 0,
     tail |-> data_slice_lengths(self)[1] + data_slice_lengths(self)[2]]

\* Lines 63-80: the new block, the live spans copied to its start.
realloc(self, nc) ==
    IF self.cap > 0
    THEN LET live == Content(self)
         IN  [buf  |-> [i \in 0..(nc - 1) |->
                          IF i < Len(live) THEN live[i + 1] ELSE Uninit],
              cap  |-> nc,
              head |-> 0,
              tail |-> data_slice_lengths(self)[1] + data_slice_lengths(self)[2]]
    ELSE [buf  |-> [i \in 0..(nc - 1) |-> Uninit],
          cap  |-> nc,
          head |-> self.head,
          tail |-> self.tail]

reserve_amortized(self, amount, dbg) ==
    LET nc == new_cap(self, amount)
    IN  IF dbg /\ ~(amount > 0) THEN {Panic(self)}
        ELSE IF dbg /\ new_cap_overflows(self, amount) THEN {Panic(self)}
        ELSE IF ~(UsizeBits >= 64 \/ nc < IsizeMax) THEN {Panic(self)}
        ELSE IF nc > IsizeMax THEN {Panic(self)}
        ELSE IF nc = 0 THEN {Undefined(realloc(self, 0)), Crash(self)}
        ELSE {Ok(realloc(self, nc))}

\* reserve with the test of line 38 turned into >=.
reserve_without_slack(self, amount, dbg) ==
    IF self.cap - len(self) >= amount
    THEN {Ok(self)}
    ELSE reserve_amortized(self, amount, dbg)

reserve(self, amount, dbg) ==
    IF self.cap - len(self) > amount
    THEN {Ok(self)}
    ELSE reserve_amortized(self, amount, dbg)

\* ------------------------------------------------------------ raw copies

\* What a read of memory the program does not own, or never wrote, may yield:
\* one byte per address parity.
Garbage == [0..1 -> Bytes]

\* The byte a copy reads at offset p.
ReadAt(self, p, g) ==
    IF ByteAt(self, p) # Uninit THEN ByteAt(self, p) ELSE g[p % 2]

\* c = <<dst, src, count>>: buf.add(dst).copy_from_nonoverlapping(buf.add(src), count)
copy_from_nonoverlapping(self, c, g) ==
    [self EXCEPT !.buf =
        [i \in 0..(self.cap - 1) |->
            IF i >= c[1] /\ i < c[1] + c[3]
            THEN ReadAt(self, c[2] + (i - c[1]), g)
            ELSE self.buf[i]]]

\* The copy has undefined behaviour: a pointer or an access outside the
\* allocation, overlapping ranges, or a read of uninitialized bytes.
copy_is_undefined(self, c) ==
    \/ c[1] > self.cap
    \/ c[2] > self.cap
    \/ c[1] + c[3] > self.cap
    \/ c[2] + c[3] > self.cap
    \/ (c[3] > 0 /\ c[1] < c[2] + c[3] /\ c[2] < c[1] + c[3])
    \/ \E i \in 0..(c[3] - 1) : ByteAt(self, c[2] + i) = Uninit

RECURSIVE do_copies(_, _, _)
do_copies(self, cs, g) ==
    IF cs = << >> THEN self
    ELSE do_copies(copy_from_nonoverlapping(self, Head(cs), g), Tail(cs), g)

RECURSIVE copies_are_undefined(_, _, _)
copies_are_undefined(self, cs, g) ==
    /\ cs # << >>
    /\ \/ copy_is_undefined(self, Head(cs))
       \/ copies_are_undefined(copy_from_nonoverlapping(self, Head(cs), g), Tail(cs), g)

\* Up to the first undefined copy no garbage is read, so any g decides this.
NoGarbage == [i \in 0..1 |-> 0]

\* ------------------------------------------------------------ append engine

\* Line 105 and line 225 without the reduction modulo cap.
advance_tail_unreduced(self, length) ==
    IF self.cap = 0 THEN Panic(self)
    ELSE Ok([self EXCEPT !.tail = wrapping(self.tail + length)])

\* Line 105 and line 225: tail = (tail + len) % cap.
advance_tail(self, length) ==
    IF self.cap = 0 THEN Panic(self)
    ELSE Ok([self EXCEPT !.tail = wrapping(self.tail + length) % self.cap])

\* The outcomes of running the copies cs and then moving tail by length.
run_copies(self, cs, length) ==
    IF copies_are_undefined(self, cs, NoGarbage)
    THEN {Crash(self)}
         \cup {Tainted(advance_tail(do_copies(self, cs, g), length)) : g \in Garbage}
    ELSE {advance_tail(do_copies(self, cs, NoGarbage), length)}

\* Lines 89-105 of extend: the bytes of data go to the free spans. A copy from
\* data is a store: dst, and the bytes themselves.
store(self, dst, bytes) ==
    [self EXCEPT !.buf =
        [i \in 0..(self.cap - 1) |->
            IF i >= dst /\ i < dst + Len(bytes)
            THEN bytes[i - dst + 1]
            ELSE self.buf[i]]]

store_is_undefined(self, dst, bytes) ==
    Len(bytes) > 0 /\ dst + Len(bytes) > self.cap

\* Lines 89-105 with every byte put in the first free span.
extend_write_first_span(self, data, dbg) ==
    {advance_tail(store(self, free_slice_parts(self)[1][1], data), Len(data))}

extend_write(self, data, dbg) ==
    LET f1     == free_slice_parts(self)[1]
        f2     == free_slice_parts(self)[2]
        length == Len(data)
        in_f1  == Min(length, f1[2])
        in_f2  == length - in_f1
        stored == store(store(self, f1[1], SubSeq(data, 1, in_f1)),
                        f2[1], SubSeq(data, in_f1 + 1, length))
    IN  IF dbg /\ ~(f1[2] + f2[2] >= length) THEN {Panic(self)}
        ELSE IF \/ store_is_undefined(self, f1[1], SubSeq(data, 1, in_f1))
                \/ store_is_undefined(self, f2[1], SubSeq(data, in_f1 + 1, length))
             THEN {Crash(self), Tainted(advance_tail(stored, length))}
        ELSE {advance_tail(stored, length)}

\* The write follows a reserve that returned; any other outcome of reserve
\* is the outcome of extend.
extend(self, data, dbg) ==
    UNION {IF r.st = "ok" THEN extend_write(r.rb, data, dbg) ELSE {r} :
           r \in reserve(self, Len(data), dbg)}

\* The block copies of extend_from_within_unchecked, lines 187-223, in order,
\* each <<dst, src, count>>, with a release build's wrapping sums.
copies(self, start, length) ==
    IF self.head < self.tail
    THEN LET after_tail == Min(length, self.cap - self.tail)
         IN  << <<self.tail, wrapping(self.head + start), after_tail>> >>
             \o (IF after_tail < length
                 THEN << <<0, wrapping(self.head + start + after_tail),
                           length - after_tail>> >>
                 ELSE << >>)
    ELSE IF wrapping(self.head + start) > self.cap
    THEN << <<self.tail, wrapping(self.head + start) % self.cap, length>> >>
    ELSE LET after_head == Min(length, self.cap - self.head)
         IN  << <<self.tail, wrapping(self.head + start), after_head>> >>
             \o (IF after_head < length
                 THEN << <<wrapping(self.tail + after_head), 0,
                           length - after_head>> >>
                 ELSE << >>)

extend_from_within_unchecked(self, start, length, dbg) ==
    IF dbg /\ self.cap = 0 THEN {Panic(self)}
    ELSE IF dbg /\ (overflows(self.head + start + length)
                     \/ overflows(self.tail + length)) THEN {Panic(self)}
    ELSE IF ~(self.head < self.tail) /\ self.cap = 0
             /\ wrapping(self.head + start) > self.cap THEN {Panic(self)}
    ELSE run_copies(self, copies(self, start, length), length)

extend_from_within(self, start, length, dbg) ==
    IF dbg /\ overflows(start + length) THEN {Panic(self)}
    ELSE IF wrapping(start + length) > len(self) THEN {Panic(self)}
    ELSE UNION {IF r.st = "ok"
                THEN extend_from_within_unchecked(r.rb, start, length, dbg)
                ELSE {r} :
                r \in reserve(self, length, dbg)}

\* ------------------------------------------------------------- drain, reset

drain(self, amount, dbg) ==
    IF dbg /\ ~(amount <= len(self)) THEN {Panic(self)}
    ELSE IF self.cap = 0 THEN {Panic(self)}
    ELSE {Ok([self EXCEPT !.head =
                wrapping(self.head + Min(amount, len(self))) % self.cap])}

clear(self) == {Ok([self EXCEPT !.head = 0, !.tail = 0])}

\* ------------------------------------------------------------ the program

\* The sizes a caller passes to reserve and drain, and the offsets and lengths
\* it passes to extend_from_within: the small ones, and the largest.
Amounts == (0..MaxArg) \cup {UsizeMax - 1, UsizeMax}

Args == (0..MaxArg) \cup {UsizeMax}

\* The byte strings a caller appends.
Datas == UNION {[1..n -> Bytes] : n \in 0..MaxData}

\* The (start, len) pairs a caller passes to extend_from_within on self: those
\* within the contract, those just past it, and those whose sum wraps around.
Pairs(self) ==
    {p \in Args \X Args :
        \/ p[1] + p[2] <= len(self) + MaxExcess
        \/ (p[1] + p[2] > UsizeMax /\ wrapping(p[1] + p[2]) <= MaxExcess)}

\* No call has ended the session yet.
NoCall == [op |-> "none", a |-> 0, b |-> 0, cap |-> 0, head |-> 0, tail |-> 0]

Init ==
    /\ buf = new.buf
    /\ cap = new.cap
    /\ head = new.head
    /\ tail = new.tail
    /\ debug \in BOOLEAN
    /\ status = "running"
    /\ model = << >>
    /\ calls = 0
    /\ last = NoCall

\* What status follows an outcome; final: the caller makes no further call.
StatusAfter(o, final) ==
    IF o.st # "ok" THEN o.st ELSE IF final THEN "done" ELSE "running"

\* A call with the given outcomes; m[rb] is the reference queue after a call
\* that returned leaving the buffer rb.
Call(call, outcomes, m) ==
    /\ status = "running"
    /\ calls < MaxCalls
    /\ calls' = calls + 1
    /\ \E o \in outcomes, final \in BOOLEAN :
        /\ o.rb.cap <= MaxCap
        /\ (o.st # "ok" \/ calls + 1 = MaxCalls) => final
        /\ buf' = o.rb.buf
        /\ cap' = o.rb.cap
        /\ head' = o.rb.head
        /\ tail' = o.rb.tail
        /\ status' = StatusAfter(o, final)
        /\ model' = IF o.st = "ok" THEN m[o.rb] ELSE model
        /\ last' = IF StatusAfter(o, final) = "running"
                   THEN NoCall
                   ELSE [call EXCEPT !.cap = cap, !.head = head, !.tail = tail]
    /\ UNCHANGED debug

Reserve ==
    /\ status = "running"
    /\ \E amount \in Amounts :
        LET outcomes == reserve(RingBuffer, amount, debug)
            m == [rb \in {o.rb : o \in outcomes} |-> model]
        IN  Call([NoCall EXCEPT !.op = "reserve", !.a = amount], outcomes, m)

Extend ==
    /\ status = "running"
    /\ \E data \in Datas :
        LET outcomes == extend(RingBuffer, data, debug)
            m == [rb \in {o.rb : o \in outcomes} |-> model \o data]
        IN  Call([NoCall EXCEPT !.op = "extend", !.b = Len(data)], outcomes, m)

\* The reference queue appends its own bytes start .. start+len; a call outside
\* the contract that returns all the same leaves it with what the buffer holds.
ExtendFromWithin ==
    /\ status = "running"
    /\ \E p \in Pairs(RingBuffer) :
        LET start == p[1]
            length == p[2]
            outcomes == extend_from_within(RingBuffer, start, length, debug)
            m == [rb \in {o.rb : o \in outcomes} |->
                    IF start + length <= Len(model)
                    THEN model \o SubSeq(model, start + 1, start + length)
                    ELSE Content(rb)]
        IN  Call([NoCall EXCEPT !.op = "extend_from_within",
                                !.a = start, !.b = length], outcomes, m)

Drain ==
    /\ status = "running"
    /\ \E amount \in Amounts :
        LET outcomes == drain(RingBuffer, amount, debug)
            m == [rb \in {o.rb : o \in outcomes} |->
                    SubSeq(model, Min(amount, Len(model)) + 1, Len(model))]
        IN  Call([NoCall EXCEPT !.op = "drain", !.a = amount], outcomes, m)

Clear ==
    /\ status = "running"
    /\ LET outcomes == clear(RingBuffer)
           m == [rb \in {o.rb : o \in outcomes} |-> << >>]
       IN  Call([NoCall EXCEPT !.op = "clear"], outcomes, m)

Next == Reserve \/ Extend \/ ExtendFromWithin \/ Drain \/ Clear

Spec == Init /\ [][Next]_vars

\* Sessions of extend and drain calls only.
NextFifo == Extend \/ Drain

SpecFifo == Init /\ [][NextFifo]_vars

\* ------------------------------------------------------------ properties

\* len() as it was before the call that ended the session.
len_before ==
    len([buf |-> << >>, cap |-> last.cap, head |-> last.head, tail |-> last.tail])

\* The session has not met undefined behaviour.
Defined == status \in {"running", "done", "panic"}

\* The call that ended the session found room for amount more bytes, or the
\* capacity it had to grow to is one the platform can allocate (line 59).
Allocatable(amount) ==
    \/ last.cap - len_before > amount
    \/ Max(2 * last.cap, PowerOfTwoFrom(1, last.cap + amount + 1)) < IsizeMax

\* C1: an extend_from_within(start, len) with len > 0 and start + len <= len(),
\* on a buffer that can take len more bytes, returns normally, the content
\* afterwards is the content before followed by
\* its bytes start .. start+len (the reference queue after the call), and
\* len() has grown by len.
C1_SelfCopyAppendsSlice ==
    (/\ last.op = "extend_from_within"
     /\ last.b > 0
     /\ last.a + last.b <= len_before
     /\ Allocatable(last.b))
        => /\ status = "done"
           /\ Content(RingBuffer) = model
           /\ len(RingBuffer) = len_before + last.b

\* C2: in a session of extend and drain calls the two spans of as_slices,
\* concatenated, are at every point the bytes appended and not yet drained, in
\* append order, and len() is their number.
C2_Fifo ==
    /\ Content(RingBuffer) = model
    /\ len(RingBuffer) = Len(model)

\* C2 witness: bytes were appended, drained and appended again, and the live
\* region is split across the end of the storage.
C2_FifoSplit ==
    /\ status = "running"
    /\ tail < head
    /\ tail > 0
    /\ Len(model) >= 3

\* C3: on a buffer whose live region is split (tail < head) and that can take
\* len more bytes, an extend_from_within(start, len) with start + len <= len()
\* returns normally and appends exactly the bytes start .. start+len of the content before.
C3_SelfCopySplit ==
    (/\ last.op = "extend_from_within"
     /\ last.tail < last.head
     /\ last.a + last.b <= len_before
     /\ Allocatable(last.b))
        => /\ status = "done"
           /\ Content(RingBuffer) = model

\* C4: an extend_from_within(start, len) with start + len > len() panics, and
\* leaves head, tail and the capacity as they were.
C4_OutOfContractFaults ==
    (last.op = "extend_from_within" /\ last.a + last.b > len_before)
        => /\ status = "panic"
           /\ cap = last.cap
           /\ head = last.head
           /\ tail = last.tail

\* C5: a reserve that reallocates, called directly or by extend or
\* extend_from_within, leaves the concatenation of the two as_slices spans and
\* len() as they were, wherever head and tail are.
C5_GrowthKeepsContent ==
    /\ status = "running" =>
           \A amount \in Amounts \cup (0..MaxData) :
               \A o \in reserve(RingBuffer, amount, debug) :
                   o.rb.cap # cap =>
                       /\ Content(o.rb) = Content(RingBuffer)
                       /\ len(o.rb) = len(RingBuffer)
    /\ (status = "done" /\ last.op = "reserve") =>
           /\ Content(RingBuffer) = model
           /\ len(RingBuffer) = len_before

\* C5 witness: a reserve reallocated a buffer whose live region was split.
C5_GrewSplit ==
    /\ status = "done"
    /\ last.op = "reserve"
    /\ last.tail < last.head
    /\ last.tail > 0
    /\ cap > last.cap

\* C6: whenever the capacity is not 0, len() is less than the capacity, and so
\* is the number of bytes the buffer holds: one byte of storage stays free.
C6_OneByteSlack ==
    (Defined /\ cap > 0) => (len(RingBuffer) < cap /\ Len(model) < cap)

\* C6 witness: an extend_from_within within its contract filled the storage
\* up to the one free byte, without growing it.
C6_FilledToSlack ==
    /\ status = "done"
    /\ last.op = "extend_from_within"
    /\ last.b > 0
    /\ last.a + last.b <= len_before
    /\ cap = last.cap
    /\ len(RingBuffer) = cap - 1

\* C7: is_empty() is true exactly when len() is 0, and exactly when the
\* reference queue holds no byte.
C7_EmptyIffNoBytes ==
    Defined =>
        /\ is_empty(RingBuffer) <=> (len(RingBuffer) = 0)
        /\ is_empty(RingBuffer) <=> (Len(model) = 0)

\* C7 witness: a buffer filled up to the one free byte, its live region split,
\* does not report empty.
C7_FullNotEmpty ==
    /\ status = "running"
    /\ cap > 1
    /\ tail < head
    /\ Len(model) = cap - 1
    /\ ~is_empty(RingBuffer)

\* C8: drain(n) with n > len() returns normally and leaves len() = 0 with
\* tail and the capacity unchanged.
C8_DrainPastLen ==
    (last.op = "drain" /\ last.a > len_before)
        => /\ status = "done"
           /\ len(RingBuffer) = 0
           /\ tail = last.tail
           /\ cap = last.cap

\* C9: when reserve(amount) returns, capacity - len() > amount.
C9_ReservePostcondition ==
    (status = "done" /\ last.op = "reserve")
        => cap - len(RingBuffer) > last.a

\* C10: when reserve(amount) returns, the capacity is unchanged if
\* capacity - len() > amount held, and otherwise is the larger of twice the
\* old capacity and the smallest power of two >= old capacity + amount + 1.
C10_GrowthPolicy ==
    (status = "done" /\ last.op = "reserve")
        => cap = IF last.cap - len_before > last.a
                 THEN last.cap
                 ELSE Max(2 * last.cap,
                          PowerOfTwoFrom(1, last.cap + last.a + 1))

\* C11: an extend_from_within(len() - d, 1) with 1 <= d <= len(), the step of
\* a replayed back-reference, on a buffer that can take one more byte, returns
\* normally and appends the byte that lies d positions before the new end.
C11_ReplayStep ==
    (/\ last.op = "extend_from_within"
     /\ last.b = 1
     /\ last.a < len_before
     /\ Allocatable(1))
        => /\ status = "done"
           /\ len(RingBuffer) = len_before + 1
           /\ Content(RingBuffer) = model
           /\ Content(RingBuffer)[len_before + 1]
                  = Content(RingBuffer)[last.a + 1]

\* C12: an extend_from_within(0, len()) on a buffer that can take len() more
\* bytes returns normally, the content is then the content before twice over
\* and len() has doubled.
C12_Duplicate ==
    (/\ last.op = "extend_from_within"
     /\ last.a = 0
     /\ last.b = len_before
     /\ Allocatable(last.b))
        => /\ status = "done"
           /\ len(RingBuffer) = 2 * len_before
           /\ Content(RingBuffer) = model

\* C13: an extend_from_within(start, 0) with start <= len() returns normally
\* and leaves len() and the content as they were.
C13_ZeroLength ==
    (/\ last.op = "extend_from_within"
     /\ last.b = 0
     /\ last.a <= len_before)
        => /\ status = "done"
           /\ len(RingBuffer) = len_before
           /\ Content(RingBuffer) = model

\* The calls a caller may make on self within the contract of
\* extend_from_within, each [op, a, b, data].
FollowUps(self) ==
    {[op |-> "extend", a |-> 0, b |-> Len(d), data |-> d] : d \in Datas}
    \cup {[op |-> "extend_from_within", a |-> p[1], b |-> p[2], data |-> << >>] :
          p \in {q \in Pairs(self) : q[1] + q[2] <= len(self)}}
    \cup {[op |-> o, a |-> n, b |-> 0, data |-> << >>] :
          o \in {"drain", "reserve"}, n \in Amounts}

\* The outcomes of the call c on self.
apply(self, c, dbg) ==
    CASE c.op = "extend" -> extend(self, c.data, dbg)
      [] c.op = "extend_from_within" -> extend_from_within(self, c.a, c.b, dbg)
      [] c.op = "drain" -> drain(self, c.a, dbg)
      [] c.op = "reserve" -> reserve(self, c.a, dbg)

\* x and y show the same len(), capacity and content, and go on doing so,
\* with the same faults, under every k further calls made on both.
RECURSIVE same_observations(_, _, _, _)
same_observations(x, y, k, dbg) ==
    /\ len(x) = len(y)
    /\ x.cap = y.cap
    /\ Content(x) = Content(y)
    /\ k > 0 =>
         \A c \in FollowUps(x) :
             /\ {o.st : o \in apply(x, c, dbg)} = {o.st : o \in apply(y, c, dbg)}
             /\ \A ox \in apply(x, c, dbg), oy \in apply(y, c, dbg) :
                    (ox.st = "ok" /\ oy.st = "ok")
                        => same_observations(ox.rb, oy.rb, k - 1, dbg)

\* C14: on a buffer with capacity > 0, clear() leaves len() = 0, both cursors
\* at 0 and the capacity unchanged, drain(len()) returns, and the cleared
\* buffer and the drained one show the same len(), capacity, content and
\* faults under every further sequence of extend, extend_from_within (with
\* start + len <= len()), drain and reserve calls.
C14_ClearIsDrainAll ==
    (status = "running" /\ cap > 0) =>
        \A cleared \in clear(RingBuffer),
           drained \in drain(RingBuffer, len(RingBuffer), debug) :
            /\ cleared.st = "ok"
            /\ cleared.rb.head = 0
            /\ cleared.rb.tail = 0
            /\ cleared.rb.cap = cap
            /\ len(cleared.rb) = 0
            /\ drained.st = "ok"
            /\ same_observations(cleared.rb, drained.rb, MaxFollowUps, debug)

\* C15: a reserve(amount) that has to grow to a capacity the platform cannot
\* allocate panics and leaves head, tail and the capacity as they were.
C15_OversizedRejected ==
    (last.op = "reserve" /\ ~Allocatable(last.a))
        => /\ status = "panic"
           /\ cap = last.cap
           /\ head = last.head
           /\ tail = last.tail
           /\ Content(RingBuffer) = model

\* The physical indices of a span <<offset, length>>.
Span(part) == {part[1] + i : i \in 0..(part[2] - 1)}

\* The indices the live spans and the free spans cover.
LiveIndices(self) ==
    Span(data_slice_parts(self)[1]) \cup Span(data_slice_parts(self)[2])

FreeIndices(self) ==
    Span(free_slice_parts(self)[1]) \cup Span(free_slice_parts(self)[2])

\* The copy c = <<dst, src, count>> reads live bytes and writes free ones.
copy_in_place(self, c) ==
    /\ Span(<<c[2], c[3]>>) \subseteq LiveIndices(self)
    /\ Span(<<c[1], c[3]>>) \subseteq FreeIndices(self)
    /\ Span(<<c[1], c[3]>>) \cup Span(<<c[2], c[3]>>) \subseteq 0..(self.cap - 1)
    /\ Span(<<c[1], c[3]>>) \cap Span(<<c[2], c[3]>>) = {}

\* C16: for every extend_from_within(start, len) with start + len <= len(),
\* each block copy made after reserve has returned reads only indices of the
\* live region and writes only indices of the free region, all of them less
\* than the capacity, and its source and destination do not intersect.
C16_CopiesInPlace ==
    status = "running" =>
        \A p \in {q \in Pairs(RingBuffer) : q[1] + q[2] <= len(RingBuffer)} :
            \A r \in reserve(RingBuffer, p[2], debug) :
                r.st = "ok" =>
                    \A i \in DOMAIN copies(r.rb, p[1], p[2]) :
                        copy_in_place(r.rb, copies(r.rb, p[1], p[2])[i])

\* C17: whenever the capacity is not 0, head and tail are less than the
\* capacity; while the capacity is 0 both are 0.
C17_CursorRange ==
    /\ cap > 0 => (head < cap /\ tail < cap)
    /\ cap = 0 => (head = 0 /\ tail = 0)

\* C17 witness: an append ended exactly at the physical end of the storage and
\* tail went back to 0, behind a head that a drain had moved.
C17_TailWrappedToZero ==
    /\ status = "done"
    /\ last.op \in {"extend", "extend_from_within"}
    /\ cap = last.cap
    /\ last.tail > 0
    /\ tail = 0
    /\ head > 0

\* C18: the live spans are [head, tail) when tail >= head and [head, cap) then
\* [0, tail) otherwise, the free spans are [tail, head) when tail < head and
\* [tail, cap) then [0, head) otherwise, no index is both live and free, every
\* index of the storage is one or the other, and the lengths of the four spans
\* add up to the capacity.
C18_Partition ==
    LET live == LiveIndices(RingBuffer)
        free == FreeIndices(RingBuffer)
    IN  /\ live = IF tail >= head
                  THEN head..(tail - 1)
                  ELSE (head..(cap - 1)) \cup (0..(tail - 1))
        /\ free = IF tail < head
                  THEN tail..(head - 1)
                  ELSE (tail..(cap - 1)) \cup (0..(head - 1))
        /\ live \cap free = {}
        /\ live \cup free = 0..(cap - 1)
        /\ data_slice_lengths(RingBuffer)[1] + data_slice_lengths(RingBuffer)[2]
           + free_slice_lengths(RingBuffer)[1] + free_slice_lengths(RingBuffer)[2]
               = cap

\* C18 witness: the live region is split across the end of the storage and
\* more than the one slack byte is free between tail and head.
C18_SplitLive ==
    /\ status = "running"
    /\ tail < head
    /\ tail > 0
    /\ head - tail > 1

\* C19: on a buffer with capacity > 0, drain(n) returns with head moved to
\* (head + min(n, len())) mod capacity; tail, the capacity and every byte of
\* the storage are as before, len() is smaller by min(n, len()) and the
\* content is the content before without its first min(n, len()) bytes.
C19_DrainMovesHead ==
    (status = "running" /\ cap > 0) =>
        \A n \in Amounts :
            \A o \in drain(RingBuffer, n, debug) :
                LET k == Min(n, len(RingBuffer))
                IN  /\ o.st = "ok"
                    /\ o.rb.head = (head + k) % cap
                    /\ o.rb.tail = tail
                    /\ o.rb.cap = cap
                    /\ o.rb.buf = buf
                    /\ len(o.rb) = len(RingBuffer) - k
                    /\ Content(o.rb)
                           = SubSeq(Content(RingBuffer), k + 1, len(RingBuffer))

\* C20: every extend_from_within(start, len) whose sum start + len, taken in
\* the integers, exceeds len() panics with the buffer untouched: it reaches
\* neither reserve nor extend_from_within_unchecked.
C20_BoundsCheckExact ==
    status = "running" =>
        \A p \in {q \in Pairs(RingBuffer) : q[1] + q[2] > len(RingBuffer)} :
            extend_from_within(RingBuffer, p[1], p[2], debug)
                = {Panic(RingBuffer)}

====
